---- MODULE Spec2Model ----
(***************************************************************************)
(* Rental agreements reconciled against a recurring-payment provider.      *)
(*                                                                         *)
(* The model covers the ledger store (models.py: Tenant, Property,         *)
(* Agreement, PaymentHistory with their uniqueness constraints), the       *)
(* provider's remote objects (customers, prices, subscriptions), the       *)
(* provisioning service (StripeSubscriptionService) and the webhook        *)
(* handler (stripe_webhook).  Each call is one atomic action; its inputs   *)
(* (the agreement, the provider fault met by the call, the event) are      *)
(* chosen nondeterministically.                                            *)
(***************************************************************************)
EXTENDS Integers, Sequences, FiniteSets, Bags, TLC

\* ------------------------------------------------------------- bounds ----
\* Remote objects the provider will create in one run.
MaxCustomers == 2
MaxPrices == 2
MaxSubscriptions == 2
\* Distinct payment references (payment_intent ids) events may carry.
MaxRef == 1
\* Event timestamps (the provider's `created` field) range over 1..MaxTs.
MaxTs == 2

\* ---------------------------------------------------------- the world ----
\* NULL / None / a missing field.
None == 0

Tenants == {1, 2}
Properties == {1, 2}
Agreements == {1, 2}
\* Agreement.tenant and Agreement.property (foreign keys, fixed here):
\* two tenants' agreements compete for property 1.
tenant_of == <<1, 2>>
property_of == <<1, 1>>
\* A Decimal with two places: its whole part and its hundredths.
\* Property.monthly_rent of the two properties: 500.00 and 750.50.
monthly_rent == <<[whole |-> 500, frac |-> 0], [whole |-> 750, frac |-> 50]>>
\* Invoice amounts, in cents, that events carry.
Amounts == {50000}

PaymentMethods == {1}

CustomerIds == 1..MaxCustomers
PriceIds == 1..MaxPrices
SubscriptionIds == 1..MaxSubscriptions
\* A subscription the provider knows and this system never created.
ForeignSubscription == MaxSubscriptions + 1
\* Payment references; NotAvailable is the literal 'N/A' the failed branch
\* stores when the event carries no payment_intent.
PaymentRefs == 1..MaxRef
NotAvailable == MaxRef + 1

STATUS_CHOICES == {"active", "inactive", "pending", "cancelled", "past_due"}
PAYMENT_STATUS_CHOICES == {"succeeded", "failed", "pending", "refunded"}

VARIABLES
  tenant_customer,       \* Tenant.stripe_customer_id, per tenant (None = NULL)
  agreement,             \* Agreement rows: status, stripe_subscription_id, stripe_price_id
  payments,              \* PaymentHistory rows, a bag (a row may not repeat unless the store lets it)
  stripe_customers,      \* remote customers, id = index
  stripe_prices,         \* remote prices, id = index
  stripe_subscriptions,  \* remote subscriptions, id = index
  last,                  \* the call that produced this state, with its result
  last_applied,          \* history: per agreement, the timestamp of the event last applied to it (0: none yet)
  uncommitted,           \* history: remote subscriptions whose local commit failed
  calls,                 \* provisioning calls in progress, one per worker: position and locals
  handlers,              \* webhook deliveries in progress, one per worker: position and locals
  snapshot               \* history: the store when the deliveries in progress began

vars == <<tenant_customer, agreement, payments, stripe_customers, stripe_prices,
          stripe_subscriptions, last, last_applied, uncommitted,
          calls, handlers, snapshot>>
\* The calls and deliveries running statement by statement.
running == <<calls, handlers, snapshot>>


\* ---------------------------------------------------- the ledger store ----
\* A store without the partial unique constraint: what C1 would face if
\* Meta.constraints were dropped.
no_active_constraint(ag) == TRUE

\* Agreement.Meta.constraints: no two agreements of one property are active.
unique_active_agreement_per_property(ag) ==
  \A a, b \in Agreements :
    (a # b /\ property_of[a] = property_of[b] /\ ag[a].status = "active")
      => ag[b].status # "active"

\* Agreement.stripe_subscription_id is unique (NULLs do not collide).
unique_subscription_id(ag) ==
  \A a, b \in Agreements :
    (a # b /\ ag[a].stripe_subscription_id # None)
      => ag[a].stripe_subscription_id # ag[b].stripe_subscription_id

\* Whether Agreement.save() of `row` over agreement a is accepted by the store.
AgreementSaveOk(ag, a, row) ==
  LET after == [ag EXCEPT ![a] = row]
  IN unique_active_agreement_per_property(after) /\ unique_subscription_id(after)

\* The rows (with repetitions) carrying one payment reference.
RowsWithRef(rows, ref) == {r \in BagToSet(rows) : r.stripe_payment_id = ref}

CountWithRef(rows, ref) ==
  LET RECURSIVE Sum(_)
      Sum(S) == IF S = {} THEN 0
                ELSE LET r == CHOOSE x \in S : TRUE
                     IN CopiesIn(r, rows) + Sum(S \ {r})
  IN Sum(RowsWithRef(rows, ref))

\* PaymentHistory.objects.create(row), once the store accepted it.
Insert(rows, row) == rows (+) SetToBag({row})

\* stripe_payment_id as it would be without unique=True.
PaymentCreateError_not_unique(rows, ref) ==
  IF ref = None THEN "IntegrityError_null" ELSE "none"

\* PaymentHistory.stripe_payment_id: NOT NULL and unique.
PaymentCreateError(rows, ref) ==
  IF ref = None THEN "IntegrityError_null"
  ELSE IF RowsWithRef(rows, ref) # {} THEN "IntegrityError_payment_id"
  ELSE "none"

\* Agreement.objects.get(stripe_subscription_id=sub): a None argument is
\* an IS NULL filter, so it matches the agreements without a subscription.
AgreementsBySubscription(ag, sub) ==
  {a \in Agreements : ag[a].stripe_subscription_id = sub}

\* ------------------------------------------------------- provisioning ----
\* The provider fault one provisioning call meets, named by the remote call
\* (or the final save) that raises; "none" lets every call through.
\* "retrieve_invalid" is stripe.Customer.retrieve raising InvalidRequestError
\* (the stored reference no longer resolves), "retrieve_error" any other
\* StripeError of that call.
Faults == {"none", "retrieve_invalid", "retrieve_error", "customer_create", "attach_card", "attach",
           "modify", "price", "subscription_card", "subscription", "save"}

\* stripe.Customer.create + tenant.save(update_fields=['stripe_customer_id']).
customer_create(t, tc, cust, fault) ==
  IF fault = "customer_create"
  THEN [raised |-> "Exception", customer_id |-> None,
        tenant_customer |-> tc, stripe_customers |-> cust]
  ELSE LET id == Len(cust) + 1
       IN [raised |-> "none", customer_id |-> id,
           tenant_customer |-> [tc EXCEPT ![t] = id],
           stripe_customers |->
             Append(cust, [tenant |-> t, default_payment_method |-> None])]

\* StripeSubscriptionService.create_or_get_customer.
create_or_get_customer(t, tc, cust, fault) ==
  IF tc[t] # None
  THEN IF fault = "retrieve_error"
       THEN [raised |-> "StripeError", customer_id |-> None,
             tenant_customer |-> tc, stripe_customers |-> cust]
       ELSE IF fault # "retrieve_invalid"
       THEN [raised |-> "none", customer_id |-> tc[t],
             tenant_customer |-> tc, stripe_customers |-> cust]
       ELSE customer_create(t, tc, cust, fault)
  ELSE customer_create(t, tc, cust, fault)

\* amount_cents = int(property_obj.monthly_rent * 100).
amount_cents(p) == monthly_rent[p].whole * 100 + monthly_rent[p].frac

\* StripeSubscriptionService.create_price_for_property: a new price on every call.
create_price_for_property(p, prices, fault) ==
  IF fault = "price"
  THEN [raised |-> "Exception", price_id |-> None, stripe_prices |-> prices]
  ELSE [raised |-> "none", price_id |-> Len(prices) + 1,
        stripe_prices |->
          Append(prices, [property |-> p, unit_amount |-> amount_cents(p)])]

\* The except clauses of create_subscription: the exception's class picks the result.
failure_class(raised) ==
  CASE raised = "CardError" -> "card_error"
    [] raised = "StripeError" -> "stripe_error"
    [] OTHER -> "unexpected_error"

\* What one provisioning call leaves behind.  `subscription_id` is the remote
\* subscription the call created (None when it created none).
Outcome(res, raised, tc, ag, cust, prices, subs, sub) ==
  [result |-> res, raised |-> raised, tenant_customer |-> tc, agreement |-> ag,
   stripe_customers |-> cust, stripe_prices |-> prices,
   stripe_subscriptions |-> subs, subscription_id |-> sub]

\* The commit as it would be if the status were saved on its own, before
\* the references, outside the transaction.
commit_status_first(a, tc0, c, cust, prices, subs, price_id, sub_id, ag, fault) ==
  LET row == [status |-> "active", stripe_subscription_id |-> sub_id,
              stripe_price_id |-> price_id]
  IN IF fault = "save"
     THEN Outcome("unexpected_error", "DatabaseError", tc0,
                  [ag EXCEPT ![a].status = "active"], cust, prices, subs, sub_id)
     ELSE IF ~AgreementSaveOk(ag, a, row)
     THEN Outcome("unexpected_error", "IntegrityError_active", tc0, ag,
                  cust, prices, subs, sub_id)
     ELSE Outcome("success", "none", c.tenant_customer, [ag EXCEPT ![a] = row],
                  cust, prices, subs, sub_id)

\* Step 5: agreement.save(update_fields=[subscription id, price id, status]),
\* one UPDATE.  A rejected save raises inside the transaction.atomic block of
\* create_subscription, which is then rolled back on exit: the tenant's
\* customer id written by step 1 of this call is lost with it.
commit(a, tc0, c, cust, prices, subs, price_id, sub_id, ag, fault) ==
  LET row == [status |-> "active", stripe_subscription_id |-> sub_id,
              stripe_price_id |-> price_id]
  IN IF fault = "save"
     THEN Outcome("unexpected_error", "DatabaseError", tc0, ag,
                  cust, prices, subs, sub_id)
     ELSE IF ~AgreementSaveOk(ag, a, row)
     THEN Outcome("unexpected_error", "IntegrityError_active", tc0, ag,
                  cust, prices, subs, sub_id)
     ELSE Outcome("success", "none", c.tenant_customer, [ag EXCEPT ![a] = row],
                  cust, prices, subs, sub_id)

\* Steps 3 and 4: the price, then stripe.Subscription.create.
price_and_subscription(a, tc0, c, cust, prices, subs, ag, fault) ==
  LET pr == create_price_for_property(property_of[a], prices, fault)
      sub_id == Len(subs) + 1
      created == Append(subs, [agreement |-> a, customer |-> c.customer_id,
                               price |-> pr.price_id,
                               cancel_at_period_end |-> FALSE])
  IN IF pr.raised # "none"
     THEN Outcome(failure_class(pr.raised), pr.raised, c.tenant_customer, ag,
                  cust, prices, subs, None)
     ELSE IF fault = "subscription_card"
     THEN Outcome(failure_class("CardError"), "CardError", c.tenant_customer, ag,
                  cust, pr.stripe_prices, subs, None)
     ELSE IF fault = "subscription"
     THEN Outcome(failure_class("StripeError"), "StripeError", c.tenant_customer, ag,
                  cust, pr.stripe_prices, subs, None)
     ELSE commit(a, tc0, c, cust, pr.stripe_prices, created, pr.price_id, sub_id,
                 ag, fault)

\* StripeSubscriptionService.create_subscription(agreement, payment_method_id).
create_subscription(a, pm, tc, ag, cust, prices, subs, fault) ==
  LET c == create_or_get_customer(tenant_of[a], tc, cust, fault)
      id == c.customer_id
      defaulted == [c.stripe_customers EXCEPT ![id].default_payment_method = pm]
  IN IF c.raised # "none"
     THEN Outcome(failure_class(c.raised), c.raised, c.tenant_customer, ag,
                  c.stripe_customers, prices, subs, None)
     ELSE IF fault = "attach_card"
     THEN Outcome(failure_class("CardError"), "CardError", c.tenant_customer, ag,
                  c.stripe_customers, prices, subs, None)
     ELSE IF fault = "attach"
     THEN Outcome(failure_class("StripeError"), "StripeError", c.tenant_customer, ag,
                  c.stripe_customers, prices, subs, None)
     ELSE IF fault = "modify"
     THEN Outcome(failure_class("StripeError"), "StripeError", c.tenant_customer, ag,
                  c.stripe_customers, prices, subs, None)
     ELSE price_and_subscription(a, tc, c, defaulted, prices, subs, ag, fault)

\* A cancellation that marks the agreement cancelled before the outcome of the
\* remote call is known.
cancel_subscription_status_first(a, ag, subs, fails) ==
  LET sub == ag[a].stripe_subscription_id
  IN IF sub = None
     THEN [result |-> FALSE, remote_call |-> FALSE, agreement |-> ag,
           stripe_subscriptions |-> subs]
     ELSE IF fails
     THEN [result |-> FALSE, remote_call |-> TRUE,
           agreement |-> [ag EXCEPT ![a].status = "cancelled"],
           stripe_subscriptions |-> subs]
     ELSE [result |-> TRUE, remote_call |-> TRUE,
           agreement |-> [ag EXCEPT ![a].status = "cancelled"],
           stripe_subscriptions |-> [subs EXCEPT ![sub].cancel_at_period_end = TRUE]]

\* StripeSubscriptionService.cancel_subscription(agreement): `fails` is the
\* outcome of stripe.Subscription.modify(cancel_at_period_end=True).
cancel_subscription(a, ag, subs, fails) ==
  LET sub == ag[a].stripe_subscription_id
  IN IF sub = None
     THEN [result |-> FALSE, remote_call |-> FALSE, agreement |-> ag,
           stripe_subscriptions |-> subs]
     ELSE IF fails
     THEN [result |-> FALSE, remote_call |-> TRUE, agreement |-> ag,
           stripe_subscriptions |-> subs]
     ELSE [result |-> TRUE, remote_call |-> TRUE,
           agreement |-> [ag EXCEPT ![a].status = "cancelled"],
           stripe_subscriptions |-> [subs EXCEPT ![sub].cancel_at_period_end = TRUE]]

\* ------------------------------------------------------------ webhook ----
EventTypes == {"invoice.payment_succeeded", "invoice.payment_failed",
               "customer.subscription.deleted", "customer.subscription.updated",
               "invoice.created"}
\* Remote subscription statuses; "missing" is an event without the field.
RemoteStatuses == {"active", "past_due", "canceled", "unpaid", "incomplete", "missing"}

\* Decimal(str(amount / 100)) stored in a DecimalField with two places.
decimal_of_cents(c) == [whole |-> c \div 100, frac |-> c % 100]

\* status_mapping as it would be without its 'unpaid' entry.
status_mapping_without_unpaid(status) ==
  CASE status = "active" -> "active"
    [] status = "past_due" -> "past_due"
    [] status = "canceled" -> "cancelled"
    [] OTHER -> "inactive"

\* status_mapping.get(status, 'inactive') of the customer.subscription.updated branch.
status_mapping(status) ==
  CASE status = "active" -> "active"
    [] status = "past_due" -> "past_due"
    [] status = "canceled" -> "cancelled"
    [] status = "unpaid" -> "past_due"
    [] OTHER -> "inactive"

\* What one webhook call leaves behind: the HTTP status, the exception that
\* ended it (if any), the agreement the lookup returned (None: no lookup ran
\* or it returned none), and the store.
Handled(code, err, a, looked, ag, rows) ==
  [response |-> code, error |-> err, agr |-> a, looked_up |-> looked,
   agreement |-> ag, payments |-> rows]

\* The status write as it would be if it were an update of every
\* agreement of the property instead of a save of the instance.
save_status_of_property(a, st, ag, rows) ==
  Handled("200", "none", a, TRUE,
          [b \in Agreements |->
             IF property_of[b] = property_of[a]
             THEN [ag[b] EXCEPT !.status = st] ELSE ag[b]],
          rows)

\* agreement.status = st; agreement.save(update_fields=['status']) and the
\* response that follows; a rejected save is not caught by the handler.
save_status(a, st, ag, rows) ==
  LET row == [ag[a] EXCEPT !.status = st]
  IN IF AgreementSaveOk(ag, a, row)
     THEN Handled("200", "none", a, TRUE, [ag EXCEPT ![a] = row], rows)
     ELSE Handled("500", "IntegrityError_active", a, TRUE, ag, rows)

\* invoice.payment_succeeded, once the agreement is found.
payment_succeeded(a, e, ag, rows) ==
  LET refused == PaymentCreateError(rows, e.payment_intent)
      created == Insert(rows, [agreement |-> a,
                               amount |-> decimal_of_cents(e.amount),
                               status |-> "succeeded",
                               stripe_payment_id |-> e.payment_intent,
                               failure_reason |-> ""])
  IN IF refused # "none"
     THEN Handled("500", refused, a, TRUE, ag, rows)
     ELSE IF ag[a].status # "active"
     THEN save_status(a, "active", ag, created)
     ELSE Handled("200", "none", a, TRUE, ag, created)

\* invoice.payment_failed, once the agreement is found.
payment_failed(a, e, ag, rows) ==
  LET ref == IF e.payment_intent = None THEN NotAvailable ELSE e.payment_intent
      refused == PaymentCreateError(rows, ref)
      created == Insert(rows, [agreement |-> a,
                               amount |-> decimal_of_cents(e.amount),
                               status |-> "failed",
                               stripe_payment_id |-> ref,
                               failure_reason |->
                                 "Payment failed - insufficient funds or card declined"])
  IN IF refused # "none"
     THEN Handled("500", refused, a, TRUE, ag, rows)
     ELSE save_status(a, "past_due", ag, created)

\* The lookup's failure as it would be if Agreement.DoesNotExist were not caught.
not_found_uncaught(ag, rows) == Handled("500", "DoesNotExist", None, TRUE, ag, rows)

\* except Agreement.DoesNotExist: logger.error(...), then the final 200.
not_found(ag, rows) == Handled("200", "DoesNotExist", None, TRUE, ag, rows)

\* The branch of an authenticated event.
dispatch(e, ag, rows) ==
  LET found == AgreementsBySubscription(ag, e.subscription)
      a == CHOOSE x \in found : TRUE
  IN IF e.type = "invoice.created"
     THEN Handled("200", "none", None, FALSE, ag, rows)
     ELSE IF found = {}
     THEN not_found(ag, rows)
     ELSE IF Cardinality(found) > 1
     THEN Handled("500", "MultipleObjectsReturned", None, TRUE, ag, rows)
     ELSE CASE e.type = "invoice.payment_succeeded" -> payment_succeeded(a, e, ag, rows)
            [] e.type = "invoice.payment_failed" -> payment_failed(a, e, ag, rows)
            [] e.type = "customer.subscription.deleted" ->
                 save_status(a, "cancelled", ag, rows)
            [] e.type = "customer.subscription.updated" ->
                 save_status(a, status_mapping(e.status), ag, rows)

\* An endpoint that reads the event without verifying it.
construct_event_unverified(auth) == TRUE

\* stripe.Webhook.construct_event: `auth` is what the payload and its
\* signature header are ("ok", "bad_signature", "bad_payload").
construct_event(auth) == auth = "ok"

\* stripe_webhook(request).
stripe_webhook(e, auth, ag, rows) ==
  IF ~construct_event(auth)
  THEN Handled("400", auth, None, FALSE, ag, rows)
  ELSE dispatch(e, ag, rows)

\* The events the provider can send, given the subscriptions it holds.  An
\* invoice may belong to no subscription (subscription = None) and may carry
\* no payment_intent; a subscription event always names its subscription.
KnownSubscriptions(subs) == (1..Len(subs)) \cup {ForeignSubscription}

InvoiceEvents(subs) ==
  [type : {"invoice.payment_succeeded", "invoice.payment_failed"},
   subscription : KnownSubscriptions(subs) \cup {None},
   payment_intent : PaymentRefs \cup {None},
   amount : Amounts, status : {"missing"}, created : 1..MaxTs]

SubscriptionEvents(subs) ==
  [type : {"customer.subscription.deleted"},
   subscription : KnownSubscriptions(subs),
   payment_intent : {None}, amount : {None}, status : {"canceled"},
   created : 1..MaxTs]
  \cup
  [type : {"customer.subscription.updated"},
   subscription : KnownSubscriptions(subs),
   payment_intent : {None}, amount : {None}, status : RemoteStatuses,
   created : 1..MaxTs]

OtherEvents ==
  [type : {"invoice.created"}, subscription : {ForeignSubscription},
   payment_intent : {None}, amount : Amounts, status : {"missing"},
   created : 1..MaxTs]

Events(subs) == InvoiceEvents(subs) \cup SubscriptionEvents(subs) \cup OtherEvents

NoEvent == [type |-> "none", subscription |-> None, payment_intent |-> None,
            amount |-> None, status |-> "missing", created |-> None]

\* ------------------------------------------------------------ actions ----
\* The record of a call: the operation, the agreement it was given or
\* found, the event's type, the result, the exception that ended it.
Call(op, a, e, res, err) ==
  [op |-> op, agr |-> a, type |-> e.type, res |-> res, err |-> err]

\* The workers (threads or processes of the web server) that run a call
\* statement by statement.
Workers == {1, 2}

\* A worker that runs no provisioning call.
IdleCall ==
  [pc |-> "idle", agr |-> None, pm |-> None, customer |-> None, price |-> None,
   sub |-> None, wrote_tenant |-> FALSE, wrote_agreement |-> FALSE,
   result |-> "none", raised |-> "none", overlap |-> FALSE]

\* A worker that runs no delivery.
IdleHandler ==
  [pc |-> "idle", event |-> NoEvent, agr |-> None, status_read |-> "none",
   response |-> "none", error |-> "none"]

Init ==
  /\ calls = [w \in Workers |-> IdleCall]
  /\ handlers = [w \in Workers |-> IdleHandler]
  /\ snapshot = [taken |-> FALSE,
                 agreement |-> [a \in Agreements |->
                                  [status |-> "pending", stripe_subscription_id |-> None,
                                   stripe_price_id |-> None]],
                 payments |-> EmptyBag]
  /\ tenant_customer = [t \in Tenants |-> None]
  /\ agreement = [a \in Agreements |->
                    [status |-> "pending", stripe_subscription_id |-> None,
                     stripe_price_id |-> None]]
  /\ payments = EmptyBag
  /\ stripe_customers = <<>>
  /\ stripe_prices = <<>>
  /\ stripe_subscriptions = <<>>
  /\ last = Call("none", None, NoEvent, "none", "none")
  /\ last_applied = [a \in Agreements |-> 0]
  /\ uncommitted = {}

\* A provisioning request for agreement a with payment method pm.
Provision(a, pm, fault) ==
  LET o == create_subscription(a, pm, tenant_customer, agreement, stripe_customers,
                               stripe_prices, stripe_subscriptions, fault)
  IN /\ Len(o.stripe_customers) <= MaxCustomers
     /\ Len(o.stripe_prices) <= MaxPrices
     /\ Len(o.stripe_subscriptions) <= MaxSubscriptions
     /\ tenant_customer' = o.tenant_customer
     /\ agreement' = o.agreement
     /\ stripe_customers' = o.stripe_customers
     /\ stripe_prices' = o.stripe_prices
     /\ stripe_subscriptions' = o.stripe_subscriptions
     /\ uncommitted' = IF o.result # "success" /\ o.subscription_id # None
                       THEN uncommitted \cup {o.subscription_id}
                       ELSE uncommitted
     /\ last' = Call("create_subscription", a, NoEvent, o.result, o.raised)
     /\ UNCHANGED <<payments, last_applied, running>>

\* A cancellation request for agreement a.
Cancel(a, fails) ==
  LET o == cancel_subscription(a, agreement, stripe_subscriptions, fails)
  IN /\ agreement' = o.agreement
     /\ stripe_subscriptions' = o.stripe_subscriptions
     /\ last' = Call("cancel_subscription", a, NoEvent,
                     IF o.result THEN "True" ELSE "False",
                     IF o.remote_call /\ ~o.result THEN "StripeError" ELSE "none")
     /\ UNCHANGED <<tenant_customer, payments, stripe_customers, stripe_prices,
                    last_applied, uncommitted, running>>

\* One delivery of event e to the webhook endpoint.
Webhook(e, auth) ==
  LET o == stripe_webhook(e, auth, agreement, payments)
  IN /\ agreement' = o.agreement
     /\ payments' = o.payments
     /\ last_applied' = IF o.response = "200" /\ o.agr # None
                        THEN [last_applied EXCEPT ![o.agr] = e.created]
                        ELSE last_applied
     /\ last' = Call("stripe_webhook", o.agr, e, o.response, o.error)
     /\ UNCHANGED <<tenant_customer, stripe_customers, stripe_prices,
                    stripe_subscriptions, uncommitted, running>>

Authentications == {"ok", "bad_signature", "bad_payload"}

\* The events carrying the newest timestamp: none of them is out of order.
Current(E) == {e \in E : e.created = MaxTs}
\* The events that only set a status.
StatusEvents(subs) == Current(SubscriptionEvents(subs))
\* The events that append a row or set a status, in any order of timestamps.
OrderedEvents(subs) ==
  {e \in InvoiceEvents(subs) \cup SubscriptionEvents(subs) :
     /\ e.subscription \in 1..Len(subs)
     /\ e.status \in {"missing", "canceled", "active"}}

\* The shape of the state.
TypeOK ==
  /\ tenant_customer \in [Tenants -> CustomerIds \cup {None}]
  /\ \A a \in Agreements :
       /\ agreement[a].status \in STATUS_CHOICES
       /\ agreement[a].stripe_subscription_id \in SubscriptionIds \cup {None}
       /\ agreement[a].stripe_price_id \in PriceIds \cup {None}
  /\ \A r \in BagToSet(payments) :
       /\ r.agreement \in Agreements
       /\ r.status \in PAYMENT_STATUS_CHOICES
       /\ r.stripe_payment_id \in PaymentRefs \cup {NotAvailable}
  /\ Len(stripe_customers) <= MaxCustomers
  /\ Len(stripe_prices) <= MaxPrices
  /\ Len(stripe_subscriptions) <= MaxSubscriptions
  /\ \A p \in 1..Len(stripe_prices) : stripe_prices[p].property \in Properties
  /\ uncommitted \subseteq SubscriptionIds
  /\ last_applied \in [Agreements -> 0..MaxTs]

\* The events of every type whose failed invoices carry their payment
\* reference (the 'N/A' rows of those that carry none are SpecOrder's).
ReconciledEvents(subs) ==
  {e \in Current(Events(subs)) :
     e.type = "invoice.payment_failed" => e.payment_intent # None}

\* Reconciliation: every kind of event against agreements provisioned,
\* re-provisioned and cancelled at any time; the payloads that fail
\* authentication are those that would act on the system's own
\* subscriptions if they were read.
Next ==
  \/ \E a \in Agreements, pm \in PaymentMethods : Provision(a, pm, "none")
  \/ \E a \in Agreements, fails \in BOOLEAN : Cancel(a, fails)
  \/ \E e \in ReconciledEvents(stripe_subscriptions) : Webhook(e, "ok")
  \/ \E e \in Current(OrderedEvents(stripe_subscriptions)),
        auth \in Authentications \ {"ok"} : Webhook(e, auth)

Spec == Init /\ [][Next]_vars

\* Provisioning: every fault at every step, against agreements whose
\* status the provider's subscription events and cancellations move.
NextProvision ==
  \/ \E a \in Agreements, pm \in PaymentMethods, fault \in Faults :
       Provision(a, pm, fault)
  \/ \E a \in Agreements, fails \in BOOLEAN : Cancel(a, fails)
  \/ \E e \in StatusEvents(stripe_subscriptions) : Webhook(e, "ok")

SpecProvision == Init /\ [][NextProvision]_vars

\* Event ordering: authenticated events of the system's own subscriptions,
\* delivered with their timestamps in any order.
NextOrder ==
  \/ \E a \in Agreements, pm \in PaymentMethods : Provision(a, pm, "none")
  \/ \E e \in OrderedEvents(stripe_subscriptions) : Webhook(e, "ok")

SpecOrder == Init /\ [][NextOrder]_vars

\* ------------------------------------- provisioning, statement by statement ----
\* create_subscription is decorated with transaction.atomic: the worker's
\* database transaction is open from the call's entry to its return.
InTransaction(c) == c.pc \notin {"idle", "done"}

\* Another worker's open transaction holds an uncommitted write to tenant t
\* (a row lock: this worker's UPDATE of the row waits for it).
TenantLocked(w, t) ==
  \E v \in Workers \ {w} :
    InTransaction(calls[v]) /\ calls[v].wrote_tenant /\ tenant_of[calls[v].agr] = t

\* Another worker's open transaction holds an uncommitted write to an
\* agreement (its row lock, or the entry it added to the unique indexes).
AgreementLocked(w) ==
  \E v \in Workers \ {w} : InTransaction(calls[v]) /\ calls[v].wrote_agreement

\* Entry: create_subscription(agreement a, payment_method_id pm).
CallBegin(w, a, pm) ==
  /\ calls[w].pc = "idle"
  /\ calls' = [calls EXCEPT ![w] =
                 [IdleCall EXCEPT !.pc = "customer", !.agr = a, !.pm = pm,
                    !.overlap = \E v \in Workers \ {w} : InTransaction(calls[v])]]
  /\ UNCHANGED <<tenant_customer, agreement, payments, stripe_customers,
                 stripe_prices, stripe_subscriptions, last, last_applied,
                 uncommitted, handlers, snapshot>>

\* Step 1, the remote part: Customer.retrieve of the stored reference, or
\* Customer.create.  The tenant's reference is read as committed.
CallCustomer(w) ==
  LET c == calls[w]
      o == create_or_get_customer(tenant_of[c.agr], tenant_customer,
                                  stripe_customers, "none")
  IN /\ c.pc = "customer"
     /\ stripe_customers' = o.stripe_customers
     /\ calls' = [calls EXCEPT ![w].customer = o.customer_id,
                               ![w].pc = IF o.tenant_customer # tenant_customer
                                         THEN "tenant_save" ELSE "attach"]
     /\ UNCHANGED <<tenant_customer, agreement, payments, stripe_prices,
                    stripe_subscriptions, last, last_applied, uncommitted,
                    handlers, snapshot>>

\* Step 1, the local part: tenant.save(update_fields=['stripe_customer_id']),
\* a write of the worker's transaction.
CallTenantSave(w) ==
  /\ calls[w].pc = "tenant_save"
  /\ ~TenantLocked(w, tenant_of[calls[w].agr])
  /\ calls' = [calls EXCEPT ![w].wrote_tenant = TRUE, ![w].pc = "attach"]
  /\ UNCHANGED <<tenant_customer, agreement, payments, stripe_customers,
                 stripe_prices, stripe_subscriptions, last, last_applied,
                 uncommitted, handlers, snapshot>>

\* Step 2: stripe.PaymentMethod.attach.
CallAttach(w) ==
  /\ calls[w].pc = "attach"
  /\ calls' = [calls EXCEPT ![w].pc = "modify"]
  /\ UNCHANGED <<tenant_customer, agreement, payments, stripe_customers,
                 stripe_prices, stripe_subscriptions, last, last_applied,
                 uncommitted, handlers, snapshot>>

\* Step 2: stripe.Customer.modify(default_payment_method).
CallModify(w) ==
  LET c == calls[w]
  IN /\ c.pc = "modify"
     /\ stripe_customers' =
          [stripe_customers EXCEPT ![c.customer].default_payment_method = c.pm]
     /\ calls' = [calls EXCEPT ![w].pc = "price"]
     /\ UNCHANGED <<tenant_customer, agreement, payments, stripe_prices,
                    stripe_subscriptions, last, last_applied, uncommitted,
                    handlers, snapshot>>

\* Step 3: create_price_for_property.
CallPrice(w) ==
  LET c == calls[w]
      o == create_price_for_property(property_of[c.agr], stripe_prices, "none")
  IN /\ c.pc = "price"
     /\ stripe_prices' = o.stripe_prices
     /\ calls' = [calls EXCEPT ![w].price = o.price_id, ![w].pc = "subscription"]
     /\ UNCHANGED <<tenant_customer, agreement, payments, stripe_customers,
                    stripe_subscriptions, last, last_applied, uncommitted,
                    handlers, snapshot>>

\* Step 4: stripe.Subscription.create.
CallSubscription(w) ==
  LET c == calls[w]
  IN /\ c.pc = "subscription"
     /\ stripe_subscriptions' =
          Append(stripe_subscriptions,
                 [agreement |-> c.agr, customer |-> c.customer, price |-> c.price,
                  cancel_at_period_end |-> FALSE])
     /\ calls' = [calls EXCEPT ![w].sub = Len(stripe_subscriptions) + 1,
                               ![w].pc = "save"]
     /\ UNCHANGED <<tenant_customer, agreement, payments, stripe_customers,
                    stripe_prices, last, last_applied, uncommitted, handlers,
                    snapshot>>

\* The row step 5 writes.
CallRow(c) ==
  [status |-> "active", stripe_subscription_id |-> c.sub, stripe_price_id |-> c.price]

\* Step 5: agreement.save(update_fields=[...]), a write of the worker's
\* transaction; a rejected write is caught by `except Exception` and leaves
\* the transaction marked for rollback.
CallSave(w) ==
  LET c == calls[w]
      ok == AgreementSaveOk(agreement, c.agr, CallRow(c))
  IN /\ c.pc = "save"
     /\ ~AgreementLocked(w)
     /\ calls' = [calls EXCEPT ![w].wrote_agreement = ok,
                               ![w].result = IF ok THEN "success" ELSE "unexpected_error",
                               ![w].raised = IF ok THEN "none" ELSE "IntegrityError_active",
                               ![w].pc = "exit"]
     /\ UNCHANGED <<tenant_customer, agreement, payments, stripe_customers,
                    stripe_prices, stripe_subscriptions, last, last_applied,
                    uncommitted, handlers, snapshot>>

\* Return: the transaction commits, or rolls back when it was marked.
CallExit(w) ==
  LET c == calls[w]
      committed == c.result = "success"
  IN /\ c.pc = "exit"
     /\ tenant_customer' = IF committed /\ c.wrote_tenant
                           THEN [tenant_customer EXCEPT ![tenant_of[c.agr]] = c.customer]
                           ELSE tenant_customer
     /\ agreement' = IF committed /\ c.wrote_agreement
                     THEN [agreement EXCEPT ![c.agr] = CallRow(c)]
                     ELSE agreement
     /\ uncommitted' = IF committed THEN uncommitted ELSE uncommitted \cup {c.sub}
     /\ last' = Call("create_subscription", c.agr, NoEvent, c.result, c.raised)
     /\ calls' = [calls EXCEPT ![w].pc = "done"]
     /\ UNCHANGED <<payments, stripe_customers, stripe_prices,
                    stripe_subscriptions, last_applied, handlers, snapshot>>

\* One statement of a provisioning call that is a call to the provider.
RemoteCall(w) ==
  \/ CallCustomer(w)
  \/ CallAttach(w)
  \/ CallModify(w)
  \/ CallPrice(w)
  \/ CallSubscription(w)

\* One statement of a provisioning call that reads or writes the database.
LocalStep(w) ==
  \/ CallTenantSave(w)
  \/ CallSave(w)
  \/ CallExit(w)

\* Concurrent provisioning: each worker runs one call, for any agreement,
\* and the workers' statements interleave in any order.
NextCalls ==
  \/ \E w \in Workers, a \in Agreements, pm \in PaymentMethods : CallBegin(w, a, pm)
  \/ \E w \in Workers : RemoteCall(w)
  \/ \E w \in Workers : LocalStep(w)

SpecCalls == Init /\ [][NextCalls]_vars

\* ----------------------------------------- deliveries, statement by statement ----
\* The endpoint runs in autocommit: each database statement of a delivery
\* takes effect on its own, and the statements of concurrent deliveries
\* interleave.
\* The status the branch of event e assigns.
hook_status(e) ==
  CASE e.type = "invoice.payment_succeeded" -> "active"
    [] e.type = "invoice.payment_failed" -> "past_due"
    [] e.type = "customer.subscription.deleted" -> "cancelled"
    [] OTHER -> status_mapping(e.status)

\* The payment_succeeded branch writes the status only if the one it read
\* is stale for a paid agreement.
skips_unless_past_due(e, status_read) ==
  e.type = "invoice.payment_succeeded" /\ status_read # "past_due"

\* `if agreement.status != 'active'` of the payment_succeeded branch: the
\* status write is skipped when the status read by the lookup is active.
skips_status_write(e, status_read) ==
  e.type = "invoice.payment_succeeded" /\ status_read = "active"

\* A worker that has authenticated event e and is about to look its
\* agreement up.
hook_begin(e) == [IdleHandler EXCEPT !.pc = "lookup", !.event = e]

\* Agreement.objects.get(stripe_subscription_id=...): the in-memory copy
\* keeps the status it read.
hook_lookup(h, ag) ==
  LET found == AgreementsBySubscription(ag, h.event.subscription)
      a == CHOOSE x \in found : TRUE
  IN IF found = {}
     THEN [h EXCEPT !.pc = "done", !.response = "200", !.error = "DoesNotExist"]
     ELSE IF Cardinality(found) > 1
     THEN [h EXCEPT !.pc = "done", !.response = "500",
                    !.error = "MultipleObjectsReturned"]
     ELSE [h EXCEPT !.agr = a, !.status_read = ag[a].status,
                    !.pc = IF h.event.type \in {"invoice.payment_succeeded",
                                                "invoice.payment_failed"}
                           THEN "append" ELSE "write"]

\* PaymentHistory.objects.create(...) of the two invoice branches.
hook_append(h, rows) ==
  LET e == h.event
      failed == e.type = "invoice.payment_failed"
      ref == IF failed /\ e.payment_intent = None THEN NotAvailable
             ELSE e.payment_intent
      refused == PaymentCreateError(rows, ref)
      row == [agreement |-> h.agr, amount |-> decimal_of_cents(e.amount),
              status |-> IF failed THEN "failed" ELSE "succeeded",
              stripe_payment_id |-> ref,
              failure_reason |->
                IF failed
                THEN "Payment failed - insufficient funds or card declined"
                ELSE ""]
  IN IF refused # "none"
     THEN [handler |-> [h EXCEPT !.pc = "done", !.response = "500",
                                 !.error = refused],
           payments |-> rows]
     ELSE IF skips_status_write(e, h.status_read)
     THEN [handler |-> [h EXCEPT !.pc = "done", !.response = "200"],
           payments |-> Insert(rows, row)]
     ELSE [handler |-> [h EXCEPT !.pc = "write"], payments |-> Insert(rows, row)]

\* agreement.status = ...; agreement.save(update_fields=['status']): an
\* UPDATE of the status column of the row the lookup returned.
hook_write(h, ag) ==
  LET row == [ag[h.agr] EXCEPT !.status = hook_status(h.event)]
  IN IF AgreementSaveOk(ag, h.agr, row)
     THEN [handler |-> [h EXCEPT !.pc = "done", !.response = "200"],
           agreement |-> [ag EXCEPT ![h.agr] = row]]
     ELSE [handler |-> [h EXCEPT !.pc = "done", !.response = "500",
                                 !.error = "IntegrityError_active"],
           agreement |-> ag]

\* One delivery run alone, from its lookup to its response.
hook_run(e, ag, rows) ==
  LET h1 == hook_lookup(hook_begin(e), ag)
      ap == IF h1.pc = "append" THEN hook_append(h1, rows)
            ELSE [handler |-> h1, payments |-> rows]
      wr == IF ap.handler.pc = "write" THEN hook_write(ap.handler, ag)
            ELSE [handler |-> ap.handler, agreement |-> ag]
  IN [response |-> wr.handler.response, error |-> wr.handler.error,
      agreement |-> wr.agreement, payments |-> ap.payments]

\* The events delivered concurrently: one of each effect on the store (a
\* succeeded row, a failed row with and without its reference, a
\* cancellation, an update to active and one to a status outside the table).
ConcurrentEvents(subs) ==
  {e \in Current(OrderedEvents(subs)) :
     /\ e.type = "invoice.payment_succeeded" => e.payment_intent # None
     /\ e.type = "customer.subscription.updated" => e.status # "canceled"}

\* The events that prepare the store for them: the status events and the
\* failed invoices stored as 'N/A', so that a row with a payment reference
\* is always one a concurrent delivery appended.
PreparingEvents(subs) ==
  {e \in ConcurrentEvents(subs) : e.payment_intent = None}

\* An order of the events by their effect; the workers being alike, the
\* pair is handed to them in this order.
EventRank(e) ==
  CASE e.type = "invoice.payment_succeeded" -> 1
    [] e.type = "invoice.payment_failed" /\ e.payment_intent # None -> 2
    [] e.type = "invoice.payment_failed" -> 3
    [] e.type = "customer.subscription.deleted" -> 4
    [] e.status = "active" -> 5
    [] OTHER -> 6

\* Two workers receive events e1 and e2 of one agreement's subscription
\* at once.
HookStart(e1, e2) ==
  /\ ~snapshot.taken
  /\ e1.subscription = e2.subscription
  /\ AgreementsBySubscription(agreement, e1.subscription) # {}
  /\ EventRank(e1) <= EventRank(e2)
  /\ handlers' = [handlers EXCEPT ![1] = hook_begin(e1), ![2] = hook_begin(e2)]
  /\ snapshot' = [taken |-> TRUE, agreement |-> agreement, payments |-> payments]
  /\ last' = Call("stripe_webhook", None, NoEvent, "none", "none")
  /\ UNCHANGED <<tenant_customer, agreement, payments, stripe_customers,
                 stripe_prices, stripe_subscriptions, last_applied, uncommitted,
                 calls>>

HookLookup(w) ==
  /\ handlers[w].pc = "lookup"
  /\ handlers' = [handlers EXCEPT ![w] = hook_lookup(handlers[w], agreement)]
  /\ UNCHANGED <<tenant_customer, agreement, payments, stripe_customers,
                 stripe_prices, stripe_subscriptions, last, last_applied,
                 uncommitted, calls, snapshot>>

HookAppend(w) ==
  LET o == hook_append(handlers[w], payments)
  IN /\ handlers[w].pc = "append"
     /\ handlers' = [handlers EXCEPT ![w] = o.handler]
     /\ payments' = o.payments
     /\ UNCHANGED <<tenant_customer, agreement, stripe_customers, stripe_prices,
                    stripe_subscriptions, last, last_applied, uncommitted,
                    calls, snapshot>>

HookWrite(w) ==
  LET o == hook_write(handlers[w], agreement)
  IN /\ handlers[w].pc = "write"
     /\ handlers' = [handlers EXCEPT ![w] = o.handler]
     /\ agreement' = o.agreement
     /\ UNCHANGED <<tenant_customer, payments, stripe_customers, stripe_prices,
                    stripe_subscriptions, last, last_applied, uncommitted,
                    calls, snapshot>>

\* Concurrent deliveries: the store is prepared by first provisioning
\* calls and by deliveries run one at a time, then two deliveries of one
\* subscription begin together and their statements interleave in any order.
NextDeliveries ==
  \/ \E a \in Agreements, pm \in PaymentMethods :
       /\ ~snapshot.taken
       /\ agreement[a].stripe_subscription_id = None
       /\ Provision(a, pm, "none")
  \/ \E e \in PreparingEvents(stripe_subscriptions) :
       ~snapshot.taken /\ Webhook(e, "ok")
  \/ \E e1, e2 \in ConcurrentEvents(stripe_subscriptions) : HookStart(e1, e2)
  \/ \E w \in Workers : HookLookup(w)
  \/ \E w \in Workers : HookAppend(w)
  \/ \E w \in Workers : HookWrite(w)

SpecDeliveries == Init /\ [][NextDeliveries]_vars

\* ============================================================ claims =====
\* The result of delivering authenticated event e to the store as it stands.
Deliver(e) == stripe_webhook(e, "ok", agreement, payments)
\* The result of a provisioning call on the system as it stands.
Provisioned(a, pm, fault) ==
  create_subscription(a, pm, tenant_customer, agreement, stripe_customers,
                      stripe_prices, stripe_subscriptions, fault)
StatusOf(ag) == [a \in Agreements |-> ag[a].status]
ActiveOn(ag, p) == {a \in Agreements : property_of[a] = p /\ ag[a].status = "active"}
\* The agreements an event's subscription reference names.
Named(e) == {a \in Agreements :
               /\ e.subscription # None
               /\ agreement[a].stripe_subscription_id = e.subscription}

\* C1: in every reachable state each property has at most one agreement
\* whose stored status is active; and a call that would make a second
\* agreement of a property active (a provisioning call, a payment_succeeded
\* or subscription_updated(active) event for an agreement that is not
\* active while another agreement of its property is) does not succeed and
\* leaves every stored status as it was.
C1_OneActivePerProperty ==
  /\ \A p \in Properties : Cardinality(ActiveOn(agreement, p)) <= 1
  /\ \A a \in Agreements :
       (ActiveOn(agreement, property_of[a]) \ {a} # {})
         => /\ \A pm \in PaymentMethods :
                 LET o == Provisioned(a, pm, "none")
                 IN o.result # "success" /\ StatusOf(o.agreement) = StatusOf(agreement)
            /\ \A e \in Current(Events(stripe_subscriptions)) :
                 (/\ a \in Named(e)
                  /\ \/ e.type = "invoice.payment_succeeded"
                     \/ e.type = "customer.subscription.updated" /\ e.status = "active")
                   => LET o == Deliver(e)
                      IN StatusOf(o.agreement) = StatusOf(agreement)

\* C1 witness: a write has just been rejected by the constraint while an
\* agreement of the property is active.
C1_Witness ==
  /\ last.err = "IntegrityError_active"
  /\ \E a \in Agreements : agreement[a].status = "active"

\* C2: delivering a payment_succeeded event that names an agreement's
\* subscription and carries a payment reference leaves exactly one row with
\* that reference, however often it is delivered; a delivery made when a
\* row with the reference exists (every delivery after the first) adds no
\* row and changes no agreement.
C2_ReplayOneRow ==
  \A e \in Current(InvoiceEvents(stripe_subscriptions)) :
    (/\ e.type = "invoice.payment_succeeded"
     /\ e.payment_intent # None
     /\ Named(e) # {})
      => LET first == Deliver(e)
             second == stripe_webhook(e, "ok", first.agreement, first.payments)
         IN /\ CountWithRef(first.payments, e.payment_intent) = 1
            /\ CountWithRef(second.payments, e.payment_intent) = 1
            /\ second.payments = first.payments
            /\ second.agreement = first.agreement
            /\ CountWithRef(payments, e.payment_intent) >= 1
                 => first.payments = payments /\ first.agreement = agreement

\* C2 witness: the one subscription's payment_succeeded event has been
\* delivered again: the delivery was refused by the payment reference of
\* the only row, a succeeded row of the same agreement.
C2_Witness ==
  /\ last.op = "stripe_webhook" /\ last.type = "invoice.payment_succeeded"
  /\ last.err = "IntegrityError_payment_id"
  /\ last.agr # None
  /\ Len(stripe_subscriptions) = 1
  /\ agreement[last.agr].stripe_subscription_id = 1
  /\ \E r \in BagToSet(payments) :
       /\ BagToSet(payments) = {r}
       /\ CopiesIn(r, payments) = 1
       /\ r.agreement = last.agr /\ r.status = "succeeded"

\* C3 (as claimed): when the call before was a payment_failed event applied
\* to an agreement, now past_due, and a payment_succeeded event of the same
\* subscription with an earlier timestamp and a fresh payment reference is
\* delivered, the agreement stays past_due and a succeeded row with the
\* late event's reference is appended.
C3_LateSuccessKeepsPastDue ==
  [][\A e \in OrderedEvents(stripe_subscriptions), a \in Agreements :
       (/\ e.type = "invoice.payment_succeeded"
        /\ Named(e) = {a}
        /\ e.payment_intent # None
        /\ CountWithRef(payments, e.payment_intent) = 0
        /\ last.op = "stripe_webhook" /\ last.type = "invoice.payment_failed"
        /\ last.agr = a /\ last.res = "200"
        /\ agreement[a].status = "past_due"
        /\ e.created < last_applied[a]
        /\ Webhook(e, "ok"))
         => /\ agreement'[a].status = "past_due"
            /\ \E r \in BagToSet(payments') :
                 /\ r.stripe_payment_id = e.payment_intent
                 /\ r.status = "succeeded" /\ r.agreement = a]_vars

\* The remote subscriptions of agreement a whose local commit failed.
UncommittedOf(a) == {s \in uncommitted : stripe_subscriptions[s].agreement = a}

\* C4 (as claimed): once a provisioning call of an agreement has created a
\* remote subscription and failed to commit it, a later provisioning call of
\* that agreement creates no further remote subscription, and when it
\* succeeds it records the one that exists.
C4_RetryReusesSubscription ==
  [][\A a \in Agreements, pm \in PaymentMethods, fault \in Faults :
       (UncommittedOf(a) # {} /\ Provision(a, pm, fault))
         => /\ stripe_subscriptions' = stripe_subscriptions
            /\ last'.res = "success"
                 => agreement'[a].stripe_subscription_id \in UncommittedOf(a)]_vars

\* C5: a delivery that fails authentication (bad signature or malformed
\* payload) is answered 400 whatever its payload says, before any lookup,
\* and leaves every agreement and the payment rows as they were.
C5_UnauthenticatedRejected ==
  \A e \in Current(Events(stripe_subscriptions)),
     auth \in Authentications \ {"ok"} :
    LET o == stripe_webhook(e, auth, agreement, payments)
    IN /\ o.response = "400"
       /\ ~o.looked_up
       /\ o.agreement = agreement
       /\ o.payments = payments

\* C5 witness: a delivery has just been rejected while the store holds an
\* agreement with a subscription, and a payment row, for it to spare.
C5_Witness ==
  /\ last.op = "stripe_webhook" /\ last.res = "400"
  /\ last.err \in {"bad_signature", "bad_payload"}
  /\ \E a \in Agreements : agreement[a].stripe_subscription_id # None
  /\ payments # EmptyBag

\* C6: a provisioning call that returns a failure, whatever the step that
\* failed, leaves the agreement's stored status and references as they
\* were; and the call makes a non-active agreement active only when it
\* returns success with the subscription and price it created recorded.
C6_FailureLeavesAgreement ==
  \A a \in Agreements, pm \in PaymentMethods, fault \in Faults :
    LET o == Provisioned(a, pm, fault)
    IN /\ o.result \in {"success", "card_error", "stripe_error", "unexpected_error"}
       /\ o.result # "success" => o.agreement = agreement
       /\ (o.agreement[a].status = "active" /\ agreement[a].status # "active")
            => /\ o.result = "success"
               /\ o.agreement[a].stripe_subscription_id = o.subscription_id
               /\ o.subscription_id = Len(stripe_subscriptions) + 1
               /\ o.agreement[a].stripe_price_id = Len(stripe_prices) + 1

\* C6 witness: a provisioning call failed at its final commit, after the
\* remote subscription was created, and the agreement is not active.
C6_Witness ==
  /\ last.op = "create_subscription" /\ last.res = "unexpected_error"
  /\ last.err \in {"DatabaseError", "IntegrityError_active"}
  /\ UncommittedOf(last.agr) # {}
  /\ agreement[last.agr].status = "pending"
  /\ agreement[last.agr].stripe_subscription_id = None

\* C7 (as claimed): no delivery to the webhook takes an agreement that is
\* cancelled or inactive to active or past_due.
C7_TerminalForEvents ==
  [][last'.op = "stripe_webhook"
       => \A a \in Agreements :
            agreement[a].status \in {"cancelled", "inactive"}
              => agreement'[a].status \notin {"active", "past_due"}]_vars

\* An event that names a subscription and, if it is an invoice event, a
\* payment reference.
Referenced(e) ==
  /\ e.subscription # None
  /\ e.type \in {"invoice.payment_succeeded", "invoice.payment_failed"}
       => e.payment_intent # None

\* C8 (as claimed, for events that carry their references): every
\* authenticated delivery is answered 200.
C8_AlwaysAcknowledged ==
  [][\A e \in OrderedEvents(stripe_subscriptions) :
       (Referenced(e) /\ Webhook(e, "ok")) => last'.res = "200"]_vars

C10_SuccessActivates ==
  [][\A e \in OrderedEvents(stripe_subscriptions), a \in Agreements :
       (/\ e.type = "invoice.payment_succeeded"
        /\ Named(e) = {a}
        /\ e.payment_intent # None
        /\ agreement[a].status \in {"pending", "active", "past_due"}
        /\ e.created >= last_applied[a]
        /\ Webhook(e, "ok"))
         => /\ agreement'[a].status = "active"
            /\ \E r \in BagToSet(payments') :
                 /\ r.stripe_payment_id = e.payment_intent
                 /\ r.status = "succeeded"]_vars

\* C11 (as claimed, for the events that carry no payment reference): a
\* payment_failed event that names the subscription of an agreement in
\* active or past_due and is not older than the event last applied to it
\* leaves the agreement past_due and appends exactly one row, a failed row
\* of that agreement with a failure reason.
C11_FailedAppendsOneRow ==
  [][\A e \in OrderedEvents(stripe_subscriptions), a \in Agreements :
       (/\ e.type = "invoice.payment_failed"
        /\ Named(e) = {a}
        /\ e.payment_intent = None
        /\ agreement[a].status \in {"active", "past_due"}
        /\ e.created >= last_applied[a]
        /\ Webhook(e, "ok"))
         => /\ agreement'[a].status = "past_due"
            /\ BagCardinality(payments') = BagCardinality(payments) + 1
            /\ \E r \in BagToSet(payments') :
                 /\ CopiesIn(r, payments') = CopiesIn(r, payments) + 1
                 /\ r.agreement = a /\ r.status = "failed"
                 /\ r.failure_reason # ""]_vars

\* The fixed table of the claim: the local status of a remote status.
MappedStatus(status) ==
  IF status = "active" THEN "active"
  ELSE IF status \in {"past_due", "unpaid"} THEN "past_due"
  ELSE IF status = "canceled" THEN "cancelled"
  ELSE "inactive"

\* C12: a subscription_updated event that names an agreement's subscription
\* appends no payment row, and the status it writes is the table's value
\* for the event's remote status whatever the agreement's status was: the
\* handler either stores that value for the agreement and answers 200, or
\* (the value being active while another agreement of the property is
\* active) the store rejects the write and every agreement is as it was.
C12_UpdatedMapsStatus ==
  \A e \in Current(SubscriptionEvents(stripe_subscriptions)), a \in Agreements :
    (e.type = "customer.subscription.updated" /\ Named(e) = {a})
      => LET o == Deliver(e)
         IN /\ o.payments = payments
            /\ o.agr = a
            /\ \A b \in Agreements \ {a} : o.agreement[b] = agreement[b]
            /\ \/ /\ o.response = "200"
                  /\ o.agreement[a] =
                       [agreement[a] EXCEPT !.status = MappedStatus(e.status)]
               \/ /\ o.response = "500" /\ o.error = "IntegrityError_active"
                  /\ MappedStatus(e.status) = "active"
                  /\ ActiveOn(agreement, property_of[a]) \ {a} # {}
                  /\ o.agreement = agreement

\* C12 witness: a subscription_updated event has just been applied and left
\* its agreement inactive (a remote status outside the table) while a
\* payment row is stored.
C12_Witness ==
  /\ last.op = "stripe_webhook" /\ last.type = "customer.subscription.updated"
  /\ last.res = "200" /\ last.agr # None
  /\ agreement[last.agr].status = "inactive"
  /\ payments # EmptyBag

\* The remote customers created for tenant t.
CustomersOf(cust, t) == {c \in 1..Len(cust) : cust[c].tenant = t}

\* C13 (as claimed): once a remote customer has been created for a tenant,
\* a later provisioning call for an agreement of that tenant, whatever the
\* step it fails at, creates no further customer, unless the stored
\* reference no longer resolves remotely.
C13_OneCustomerPerTenant ==
  [][\A a \in Agreements, pm \in PaymentMethods, fault \in Faults :
       (/\ CustomersOf(stripe_customers, tenant_of[a]) # {}
        /\ fault # "retrieve_invalid"
        /\ Provision(a, pm, fault))
         => CustomersOf(stripe_customers', tenant_of[a])
              = CustomersOf(stripe_customers, tenant_of[a])]_vars

\* The remote prices created for property p.
PricesOf(prices, p) == {i \in 1..Len(prices) : prices[i].property = p}

\* C14 (as claimed): in every reachable state at most one remote price
\* exists for each property.
C14_OnePricePerProperty ==
  \A p \in Properties : Cardinality(PricesOf(stripe_prices, p)) <= 1

\* C15 (as claimed): no statement of a provisioning call that calls the
\* provider runs while the call's database transaction is open.
C15_NoRemoteCallInTransaction ==
  [][\A w \in Workers : RemoteCall(w) => ~InTransaction(calls[w])]_vars

\* The remote subscriptions whose metadata names agreement a.
SubscriptionsOf(subs, a) == {i \in 1..Len(subs) : subs[i].agreement = a}

\* C16 (as claimed): when two provisioning calls of one agreement have run
\* concurrently (the second began while the first was in progress) and both
\* have returned, at most one remote subscription exists for the agreement
\* and the agreement's stored reference is that subscription.
C16_ConcurrentCallsOneSubscription ==
  \A a \in Agreements :
    (/\ \A w \in Workers : calls[w].pc = "done" /\ calls[w].agr = a
     /\ \E w \in Workers : calls[w].overlap)
      => /\ Cardinality(SubscriptionsOf(stripe_subscriptions, a)) <= 1
         /\ agreement[a].stripe_subscription_id
              \in SubscriptionsOf(stripe_subscriptions, a)

\* The store left by delivering e1 and then e2, one after the other, to
\* the store the concurrent deliveries began with.
Serial(e1, e2) ==
  LET first == hook_run(e1, snapshot.agreement, snapshot.payments)
      second == hook_run(e2, first.agreement, first.payments)
  IN [agreement |-> second.agreement, payments |-> second.payments]

\* C17: when two deliveries of events of one agreement's subscription have
\* run concurrently, their lookups, row appends and status writes
\* interleaved in any order, and both have ended, the agreements and the
\* payment rows are those left by one of the two serial orders.
C17_ConcurrentDeliveriesSerializable ==
  (snapshot.taken /\ \A w \in Workers : handlers[w].pc = "done")
    => [agreement |-> agreement, payments |-> payments]
         \in {Serial(handlers[1].event, handlers[2].event),
              Serial(handlers[2].event, handlers[1].event)}

\* C17 witness: a payment_succeeded and a payment_failed event of one
\* agreement, inactive when they arrived, have been handled concurrently:
\* both looked the agreement up before either wrote its status, both
\* appended their row and wrote the status, and the two serial orders
\* leave different stores.
C17_Witness ==
  /\ snapshot.taken /\ \A w \in Workers : handlers[w].pc = "done"
  /\ handlers[1].event.type = "invoice.payment_succeeded"
  /\ handlers[2].event.type = "invoice.payment_failed"
  /\ handlers[1].agr # None /\ handlers[1].agr = handlers[2].agr
  /\ snapshot.agreement[handlers[1].agr].status = "inactive"
  /\ \A w \in Workers : handlers[w].status_read = "inactive"
  /\ \A w \in Workers : handlers[w].response = "200"
  /\ BagCardinality(payments) = BagCardinality(snapshot.payments) + 2
  /\ Serial(handlers[1].event, handlers[2].event)
       # Serial(handlers[2].event, handlers[1].event)

\* The statements of a delivery run alone do what the handler does.
StepsAgreeWithHandler ==
  \A e \in Events(stripe_subscriptions) :
    e.type # "invoice.created"
      => LET o == Deliver(e)
             s == hook_run(e, agreement, payments)
         IN /\ s.agreement = o.agreement /\ s.payments = o.payments
            /\ s.response = o.response /\ s.error = o.error

\* C18 (as claimed): a delivery of a payment_succeeded or payment_failed
\* event that stores a payment row leaves the agreement it names with the
\* status the event requires (active, past_due).
C18_RowAndStatusTogether ==
  [][\A e \in OrderedEvents(stripe_subscriptions), a \in Agreements :
       (/\ e.type \in {"invoice.payment_succeeded", "invoice.payment_failed"}
        /\ Named(e) = {a}
        /\ Webhook(e, "ok")
        /\ payments' # payments)
         => agreement'[a].status = hook_status(e)]_vars

\* The faults that are a rejection by the provider at one of the steps.
ProviderFaults ==
  {"retrieve_error", "customer_create", "attach_card", "attach", "modify",
   "price", "subscription_card", "subscription"}

\* C19 (as claimed): a provisioning call that ends because the provider
\* rejected one of its calls, at whatever step, returns card_error or
\* stripe_error.
C19_ProviderErrorClassified ==
  [][\A a \in Agreements, pm \in PaymentMethods, fault \in ProviderFaults :
       (/\ Provision(a, pm, fault)
        /\ last'.err \in {"CardError", "StripeError", "Exception"})
         => last'.res \in {"card_error", "stripe_error"}]_vars

\* The payment rows of agreement b, with their multiplicities.
RowsOf(rows, b) == [r \in {x \in BagToSet(rows) : x.agreement = b} |-> CopiesIn(r, rows)]

C21_StatusImpliesReferences ==
  \A a \in Agreements :
    agreement[a].status \in {"active", "past_due", "cancelled"}
      => /\ agreement[a].stripe_subscription_id # None
         /\ agreement[a].stripe_price_id # None

\* C22: cancel_subscription returns True exactly when the agreement stores
\* a subscription reference and the remote modify call succeeded, and then
\* the stored status is cancelled; without a subscription reference it
\* returns False and issues no remote call; when the remote call fails it
\* returns False; whenever it returns False every stored status is as it
\* was; in every case the subscription and price references of every
\* agreement are as they were, and no other agreement changes.
C22_CancelOnlyOnRemoteSuccess ==
  \A a \in Agreements, fails \in BOOLEAN :
    LET o == cancel_subscription(a, agreement, stripe_subscriptions, fails)
        sub == agreement[a].stripe_subscription_id
    IN /\ o.result <=> (sub # None /\ ~fails)
       /\ o.result => /\ o.remote_call
                      /\ o.agreement[a].status = "cancelled"
                      /\ o.stripe_subscriptions[sub].cancel_at_period_end
       /\ sub = None => ~o.remote_call
       /\ (sub # None /\ fails) => (o.remote_call /\ ~o.result)
       /\ ~o.result => /\ o.agreement = agreement
                       /\ o.stripe_subscriptions = stripe_subscriptions
       /\ \A b \in Agreements :
            /\ o.agreement[b].stripe_subscription_id = agreement[b].stripe_subscription_id
            /\ o.agreement[b].stripe_price_id = agreement[b].stripe_price_id
            /\ b # a => o.agreement[b] = agreement[b]

\* C22 witness: a cancellation whose remote call failed has just returned
\* False for an agreement that stores a subscription and is still active,
\* while the other agreement was cancelled by an earlier call that
\* succeeded and the remote subscription is marked to end with the period.
C22_Witness ==
  /\ last.op = "cancel_subscription" /\ last.res = "False"
  /\ last.err = "StripeError" /\ last.agr # None
  /\ agreement[last.agr].stripe_subscription_id # None
  /\ agreement[last.agr].status = "active"
  /\ \E b \in Agreements \ {last.agr} :
       /\ agreement[b].status = "cancelled"
       /\ agreement[b].stripe_subscription_id # None
       /\ stripe_subscriptions[agreement[b].stripe_subscription_id].cancel_at_period_end

====
